---- MODULE Spec2Model ----
(***************************************************************************)
(* Model of cxxd (src/cxxd.py): a colorizing filter for xxd output.        *)
(*                                                                         *)
(* A Python str is a sequence of one-character strings.  Three characters  *)
(* that TLA+ cannot write are named: ESC is "\033", NL is "\n" and         *)
(* pixel_char is U+25FC.  A call that raises is recorded with the name of  *)
(* the exception in exc ("" when the call returned).                       *)
(***************************************************************************)
EXTENDS Integers, Sequences, FiniteSets, TLC

VARIABLES base_palette, instances, call, pc, args, consumed, stdout

vars == <<base_palette, instances, call, pc, args, consumed, stdout>>

----------------------------------------------------------------------------
(* Bounds of the model *)

\* rotations are drawn from { r + 31*k : |r| <= MaxRot, |k| <= MaxWrap }
MaxRot == 1
MaxWrap == 1
\* length of the byte fields handed to re.split / parse / format_line
MaxHexLen == 4
\* length of the byte fields tokenized in binary mode
MaxBinLen == 9
\* number of lines xxd writes in one run of main
MaxLines == 3

----------------------------------------------------------------------------
(* Characters and strings *)

ESC == "ESC"
NL == "\n"

HexDigits == {"0", "1", "2", "3", "4", "5", "6", "7", "8", "9",
              "a", "b", "c", "d", "e", "f", "A", "B", "C", "D", "E", "F"}
BinDigits == {"0", "1"}
Whitespace == {" ", "\t", NL, "\r"}

DigitValue(c) ==
    CASE c = "0" -> 0 [] c = "1" -> 1 [] c = "2" -> 2 [] c = "3" -> 3
      [] c = "4" -> 4 [] c = "5" -> 5 [] c = "6" -> 6 [] c = "7" -> 7
      [] c = "8" -> 8 [] c = "9" -> 9
      [] c \in {"a", "A"} -> 10 [] c \in {"b", "B"} -> 11
      [] c \in {"c", "C"} -> 12 [] c \in {"d", "D"} -> 13
      [] c \in {"e", "E"} -> 14 [] c \in {"f", "F"} -> 15

DecimalDigit(d) ==
    CASE d = 0 -> "0" [] d = 1 -> "1" [] d = 2 -> "2" [] d = 3 -> "3"
      [] d = 4 -> "4" [] d = 5 -> "5" [] d = 6 -> "6" [] d = 7 -> "7"
      [] d = 8 -> "8" [] d = 9 -> "9"

\* "%d" % n for a non-negative int
RECURSIVE FormatD(_)
FormatD(n) == IF n < 10 THEN <<DecimalDigit(n)>>
              ELSE FormatD(n \div 10) \o <<DecimalDigit(n % 10)>>

\* s[i:] with a 1-based i
Tail_from(s, i) == SubSeq(s, i, Len(s))

\* str.find(sep), 1-based, 0 when sep does not occur
Find(s, sep) ==
    LET hits == {i \in 1..(Len(s) - Len(sep) + 1) :
                    SubSeq(s, i, i + Len(sep) - 1) = sep}
    IN IF hits = {} THEN 0 ELSE CHOOSE i \in hits : \A j \in hits : i <= j

\* str.split(sep, 1): a list of one or two strings
split1(s, sep) ==
    LET i == Find(s, sep)
    IN IF i = 0 THEN <<s>>
       ELSE <<SubSeq(s, 1, i - 1), Tail_from(s, i + Len(sep))>>

\* str.strip(): leading and trailing whitespace removed
RECURSIVE lstrip(_)
lstrip(s) == IF s # <<>> /\ Head(s) \in Whitespace THEN lstrip(Tail(s)) ELSE s

RECURSIVE rstrip(_)
rstrip(s) == IF s # <<>> /\ s[Len(s)] \in Whitespace
             THEN rstrip(SubSeq(s, 1, Len(s) - 1)) ELSE s

strip(s) == rstrip(lstrip(s))

----------------------------------------------------------------------------
(* Results of calls *)

None == -1

Ret(v) == [exc |-> "", val |-> v]
Raise(e) == [exc |-> e, val |-> <<>>]

----------------------------------------------------------------------------
(* colorize and the XXDParser class attributes *)

\* "\033[38;5;%dm%s\033[0m" % (vt100_index, s); %d of None is a TypeError
colorize(s, vt100_index) ==
    IF vt100_index = None THEN Raise("TypeError")
    ELSE Ret(<<ESC, "[", "3", "8", ";", "5", ";">> \o FormatD(vt100_index)
             \o <<"m">> \o s \o <<ESC, "[", "0", "m">>)

null_color == 59
address_separator == <<":", " ">>
hex_separator == <<" ", " ">>
pixel_char == "U+25FC"
\* a regex "([class]{count})": one capturing group of count characters
regex_bin == [class |-> BinDigits, count |-> 8]
regex_hex == [class |-> HexDigits, count |-> 2]

\* XXDParser.__init__: the fields it sets
XXDParser_init(binary) ==
    [base |-> IF binary THEN 2 ELSE 16,
     regex |-> IF binary THEN regex_bin ELSE regex_hex]

----------------------------------------------------------------------------
(* re.split(regex, s) with one capturing group, and int(s, base) *)

MatchesAt(regex, s, i) ==
    /\ i + regex.count - 1 <= Len(s)
    /\ \A j \in i..(i + regex.count - 1) : s[j] \in regex.class

\* start of the leftmost match, 0 when there is none
Search(regex, s) ==
    LET hits == {i \in 1..Len(s) : MatchesAt(regex, s, i)}
    IN IF hits = {} THEN 0 ELSE CHOOSE i \in hits : \A j \in hits : i <= j

\* a split on a pattern without the capturing group: the matches are lost
RECURSIVE re_split_no_group(_, _)
re_split_no_group(regex, s) ==
    LET i == Search(regex, s)
    IN IF i = 0 THEN <<s>>
       ELSE <<SubSeq(s, 1, i - 1)>>
            \o re_split_no_group(regex, Tail_from(s, i + regex.count))

\* the text before each match and the match itself, then the rest
RECURSIVE re_split(_, _)
re_split(regex, s) ==
    LET i == Search(regex, s)
    IN IF i = 0 THEN <<s>>
       ELSE <<SubSeq(s, 1, i - 1), SubSeq(s, i, i + regex.count - 1)>>
            \o re_split(regex, Tail_from(s, i + regex.count))

DigitsOf(base) == IF base = 2 THEN BinDigits ELSE HexDigits

RECURSIVE DigitsValue(_, _)
DigitsValue(t, base) ==
    IF t = <<>> THEN 0
    ELSE DigitsValue(SubSeq(t, 1, Len(t) - 1), base) * base
         + DigitValue(t[Len(t)])

\* int(s, base): surrounding whitespace is allowed, anything that is not a
\* digit of the base is a ValueError.  (Signs, underscores and the 0x / 0b
\* prefixes that int also accepts are not in the alphabets used here.)
int_base(s, base) ==
    LET t == strip(s)
    IN IF t # <<>> /\ \A j \in 1..Len(t) : t[j] \in DigitsOf(base)
       THEN Ret(DigitsValue(t, base))
       ELSE Raise("ValueError")

----------------------------------------------------------------------------
(* GradientPalette *)

GradientPalette_base_palette ==
    <<131, 167, 203, 209, 173, 137, 179, 221, 227, 191, 149, 120, 78, 79,
      116, 117, 74, 75, 68, 105, 62, 98, 97, 134, 176, 207, 164, 163, 126,
      132, 168>>

\* a rotation by slicing, d[-n:] + d[:-n], which leaves d as it is once n
\* is beyond the length
deque_rotate_slices(d, n) ==
    IF n > Len(d) \/ n < -Len(d) \/ n = 0 THEN d
    ELSE IF n > 0
         THEN SubSeq(d, Len(d) - n + 1, Len(d)) \o SubSeq(d, 1, Len(d) - n)
         ELSE SubSeq(d, 1 - n, Len(d)) \o SubSeq(d, 1, -n)

\* collections.deque.rotate(n): n steps to the right, one step to the right
\* being d.appendleft(d.pop()); a negative n rotates to the left
RECURSIVE deque_rotate(_, _)
deque_rotate(d, n) ==
    IF n = 0 \/ d = <<>> THEN d
    ELSE IF n > 0
         THEN deque_rotate(<<d[Len(d)]>> \o SubSeq(d, 1, Len(d) - 1), n - 1)
         ELSE deque_rotate(Tail(d) \o <<Head(d)>>, n + 1)

\* rotate without the deepcopy: the class attribute itself is rotated
rotate_in_place(base, num) ==
    [base_palette |-> deque_rotate(base, -num),
     rotated |-> deque_rotate(base, -num)]

\* GradientPalette.rotate(num) run when the class attribute is base: what
\* the class attribute is afterwards and the deque returned
rotate(base, num) ==
    [base_palette |-> base, rotated |-> deque_rotate(base, -num)]

\* the index scaled by 255 instead of 256
gradient_index_255(length, byte) == (length * byte) \div 255

\* int(len(self.palette) * byte / 256.0)
gradient_index(length, byte) == (length * byte) \div 256

\* color_picker without the test for the zero byte
color_picker_no_zero_test(self, byte) ==
    Ret(self.palette[gradient_index(Len(self.palette), byte) + 1])

GradientPalette_color_picker(self, byte) ==
    IF byte = 0 THEN Ret(null_color)
    ELSE LET index == gradient_index(Len(self.palette), byte)
         IN IF index < Len(self.palette) THEN Ret(self.palette[index + 1])
            ELSE Raise("IndexError")

----------------------------------------------------------------------------
(* AsciiPalette *)

isalpha(byte) == byte \in 65..90 \/ byte \in 97..122
isdigit(byte) == byte \in 48..57

AsciiPalette_color_picker(byte) ==
    IF byte >= 32 /\ byte < 127
    THEN IF isalpha(byte) THEN Ret(None)
         ELSE IF isdigit(byte) THEN Ret(None)
         ELSE IF byte = 32 THEN Ret(None)
         ELSE IF byte = 9 THEN Ret(None)
         ELSE Ret(None)
    ELSE IF byte = 10 THEN Ret(None)
    ELSE IF byte = 13 THEN Ret(None)
    ELSE Ret(null_color)

color_picker(self, byte) ==
    IF self.cls = "GradientPalette"
    THEN GradientPalette_color_picker(self, byte)
    ELSE AsciiPalette_color_picker(byte)

----------------------------------------------------------------------------
(* XXDParser.parse and format_line *)

\* map_color that colors the token text whether or not pixelate is set
map_color_no_pixel(self, byte, pixelate) ==
    IF strip(byte) = <<>> THEN Ret(byte)
    ELSE LET n == int_base(byte, self.base)
         IN IF n.exc # "" THEN n
            ELSE LET c == color_picker(self, n.val)
                 IN IF c.exc # "" THEN c ELSE colorize(byte, c.val)

map_color(self, byte, pixelate) ==
    IF strip(byte) = <<>> THEN Ret(byte)
    ELSE LET to_show == IF pixelate THEN <<pixel_char>> ELSE byte
             n == int_base(byte, self.base)
         IN IF n.exc # "" THEN n
            ELSE LET c == color_picker(self, n.val)
                 IN IF c.exc # "" THEN c ELSE colorize(to_show, c.val)

\* "".join(...) over the pieces; the first piece that raises ends the call
RECURSIVE join_colored(_, _, _)
join_colored(self, byte_data, pixelate) ==
    IF byte_data = <<>> THEN Ret(<<>>)
    ELSE LET first == map_color(self, Head(byte_data), pixelate)
         IN IF first.exc # "" THEN first
            ELSE LET rest == join_colored(self, Tail(byte_data), pixelate)
                 IN IF rest.exc # "" THEN rest
                    ELSE Ret(first.val \o rest.val)

parse(self, hex_data, pixelate) ==
    join_colored(self, re_split(self.regex, hex_data), pixelate)

\* format_line that keeps the text field's line terminator
format_line_keeps_terminator(line, self, pixelate) ==
    IF line = <<"*", NL>> THEN Ret(line)
    ELSE LET parts == split1(line, address_separator)
         IN IF Len(parts) # 2 THEN Raise("ValueError")
            ELSE LET fields == split1(parts[2], hex_separator)
                 IN IF Len(fields) # 2 THEN Raise("ValueError")
                    ELSE LET hex_data == parse(self, fields[1], pixelate)
                         IN IF hex_data.exc # "" THEN hex_data
                            ELSE Ret(parts[1] \o address_separator
                                     \o hex_data.val \o hex_separator
                                     \o fields[2])

\* format_line that passes a line without its separators through
format_line_passes_malformed(line, self, pixelate) ==
    IF line = <<"*", NL>> THEN Ret(line)
    ELSE LET parts == split1(line, address_separator)
         IN IF Len(parts) # 2 THEN Ret(SubSeq(line, 1, Len(line) - 1))
            ELSE LET fields == split1(parts[2], hex_separator)
                 IN IF Len(fields) # 2
                    THEN Ret(SubSeq(line, 1, Len(line) - 1))
                    ELSE LET hex_data == parse(self, fields[1], pixelate)
                         IN IF hex_data.exc # "" THEN hex_data
                            ELSE Ret(parts[1] \o address_separator
                                     \o hex_data.val \o hex_separator
                                     \o SubSeq(fields[2], 1,
                                               Len(fields[2]) - 1))

format_line(line, self, pixelate) ==
    IF line = <<"*", NL>> THEN Ret(line)
    ELSE LET parts == split1(line, address_separator)
         IN IF Len(parts) # 2 THEN Raise("ValueError")
            ELSE LET address == parts[1]
                     fields == split1(parts[2], hex_separator)
                 IN IF Len(fields) # 2 THEN Raise("ValueError")
                    ELSE LET hex_data == parse(self, fields[1], pixelate)
                             ascii_data == fields[2]
                         IN IF hex_data.exc # "" THEN hex_data
                            ELSE Ret(address \o address_separator
                                     \o hex_data.val \o hex_separator
                                     \o SubSeq(ascii_data, 1,
                                               Len(ascii_data) - 1))

----------------------------------------------------------------------------
(* Inputs *)

Bytes == 0..255

SeqsUpTo(S, n) == UNION {[1..m -> S] : m \in 0..n}

Rotations == {r + 31 * k : r \in (-MaxRot)..MaxRot, k \in (-MaxWrap)..MaxWrap}

\* byte fields: hex digits of both cases, the zero digit and the space
HexFields == SeqsUpTo({"0", "a", "F", " "}, MaxHexLen)
BinFields == SeqsUpTo({"0", "1", " "}, MaxBinLen)
SampleFields == {<<"0", "0", " ", "F", "a">>, <<"a">>, <<>>}

Marker == <<"*", NL>>
Addresses == {<<"0", "0">>, <<"1", "a">>}
Texts == {<<NL>>, <<".", NL>>, <<"f", "f", " ", " ", ".", NL>>}

\* the lines format_line is applied to: the marker, record lines, and lines
\* with a separator cut short
Lines ==
    {Marker} \cup
    {a \o s1 \o h \o s2 \o t :
        a \in Addresses, s1 \in {<<":", " ">>, <<":">>}, h \in HexFields,
        s2 \in {<<" ", " ">>, <<" ">>}, t \in Texts}

\* the lines xxd writes in a run of main
SampleLines ==
    {Marker,
     <<"0", "0", ":", " ", "0", "a", " ", " ", ".", NL>>,
     <<"1", "0", ":", " ", "0", "0", "F", "f", " ", "4", "1", " ", " ",
       ".", ".", "A", NL>>,
     <<"0", "0", " ", "0", "a", " ", " ", ".", NL>>,
     <<"0", "0", ":", " ", "0", "a", " ", ".", NL>>,
     <<"*">>}

----------------------------------------------------------------------------
(* State *)

\* the names the parser objects of a run are bound to: main's parser, and
\* two objects for the properties that compare one parser with another
ParserNames == {"p", "q"}

NoInstances == [n \in {} |-> <<>>]

NoCall == [op |-> "", self |-> "", byte |-> 0, text |-> <<>>,
           pixelate |-> FALSE, byte_data |-> <<>>, ret |-> Ret(<<>>)]

NoArgs == [rotate |-> 0, pixelate |-> FALSE]

\* GradientPalette.__init__; rotate_index is the constructor's argument,
\* kept with the object so that properties can name it
GradientPalette_init(binary, rotate_index, rotated) ==
    [cls |-> "GradientPalette",
     base |-> XXDParser_init(binary).base,
     regex |-> XXDParser_init(binary).regex,
     palette |-> rotated,
     rotate_index |-> rotate_index]

\* AsciiPalette.__init__: super(GradientPalette, self) with a self that is
\* not a GradientPalette raises TypeError before anything is set
AsciiPalette_init(binary, rotate_index) == Raise("TypeError")

Init ==
    /\ base_palette = GradientPalette_base_palette
    /\ instances = NoInstances
    /\ call = NoCall
    /\ pc = "start"
    /\ args = NoArgs
    /\ consumed = <<>>
    /\ stdout = <<>>

----------------------------------------------------------------------------
(* Calls into the classes.  A run observes one call: call holds it, and
   parsers may be built before and after it. *)

NewGradientPalette(name, binary, rotate_index) ==
    /\ name \notin DOMAIN instances
    /\ LET r == rotate(base_palette, rotate_index)
       IN /\ base_palette' = r.base_palette
          /\ instances' = instances @@
                 (name :> GradientPalette_init(binary, rotate_index,
                                               r.rotated))
    /\ UNCHANGED <<call, pc, args, consumed, stdout>>

NewAsciiPalette(binary, rotate_index) ==
    /\ call = NoCall
    /\ call' = [NoCall EXCEPT !.op = "AsciiPalette",
                              !.ret = AsciiPalette_init(binary, rotate_index)]
    /\ UNCHANGED <<base_palette, instances, pc, args, consumed, stdout>>

ColorPicker(i, byte) ==
    /\ call = NoCall
    /\ i \in DOMAIN instances
    /\ call' = [NoCall EXCEPT !.op = "color_picker", !.self = i,
                              !.byte = byte,
                              !.ret = color_picker(instances[i], byte)]
    /\ UNCHANGED <<base_palette, instances, pc, args, consumed, stdout>>

AsciiColorPicker(byte) ==
    /\ call = NoCall
    /\ call' = [NoCall EXCEPT !.op = "AsciiPalette.color_picker",
                              !.byte = byte,
                              !.ret = AsciiPalette_color_picker(byte)]
    /\ UNCHANGED <<base_palette, instances, pc, args, consumed, stdout>>

\* parse, with the fragments of line 40 kept beside its result
Parse(i, hex_data, pixelate) ==
    /\ call = NoCall
    /\ i \in DOMAIN instances
    /\ call' = [NoCall EXCEPT
                  !.op = "parse", !.self = i, !.text = hex_data,
                  !.pixelate = pixelate,
                  !.byte_data = re_split(instances[i].regex, hex_data),
                  !.ret = parse(instances[i], hex_data, pixelate)]
    /\ UNCHANGED <<base_palette, instances, pc, args, consumed, stdout>>

FormatLine(i, line, pixelate) ==
    /\ call = NoCall
    /\ i \in DOMAIN instances
    /\ call' = [NoCall EXCEPT
                  !.op = "format_line", !.self = i, !.text = line,
                  !.pixelate = pixelate,
                  !.ret = format_line(line, instances[i], pixelate)]
    /\ UNCHANGED <<base_palette, instances, pc, args, consumed, stdout>>

----------------------------------------------------------------------------
(* main *)

\* lines 153-182: the arguments are parsed and the parser is built
Start(rotate_arg, pixelate) ==
    /\ pc = "start"
    /\ args' = [rotate |-> rotate_arg, pixelate |-> pixelate]
    /\ LET r == rotate(base_palette, rotate_arg)
       IN /\ base_palette' = r.base_palette
          /\ instances' = ("parser" :> GradientPalette_init(FALSE, rotate_arg,
                                                            r.rotated))
    /\ pc' = "loop"
    /\ UNCHANGED <<call, consumed, stdout>>

\* lines 183-184: one line of xxd is read, formatted and printed; an
\* exception of format_line is not caught and ends the process
LoopLine(line) ==
    /\ pc = "loop"
    /\ Len(consumed) < MaxLines
    /\ consumed' = Append(consumed, line)
    /\ LET ret == format_line(line, instances["parser"], args.pixelate)
       IN /\ call' = [NoCall EXCEPT
                        !.op = "format_line", !.self = "parser",
                        !.text = line, !.pixelate = args.pixelate, !.ret = ret]
          /\ IF ret.exc # ""
             THEN pc' = "crashed" /\ stdout' = stdout
             ELSE pc' = "loop" /\ stdout' = stdout \o ret.val \o <<NL>>
    /\ UNCHANGED <<base_palette, instances, args>>

\* lines 186-189: xxd's output has ended
EndOfStream ==
    /\ pc = "loop"
    /\ pc' = "done"
    /\ UNCHANGED <<base_palette, instances, call, args, consumed, stdout>>

Next ==
    \/ \E r \in (-MaxRot)..MaxRot, x \in BOOLEAN : Start(r, x)
    \/ \E line \in SampleLines : LoopLine(line)
    \/ EndOfStream

Spec == Init /\ [][Next]_vars

----------------------------------------------------------------------------
(* The palette classes, driven call by call *)

NextPalette ==
    \/ \E n \in ParserNames, r \in Rotations : NewGradientPalette(n, FALSE, r)
    \/ /\ call = NoCall
       /\ \E b \in BOOLEAN, r \in Rotations : NewAsciiPalette(b, r)
    \/ /\ call = NoCall
       /\ \E n \in ParserNames, byte \in Bytes : ColorPicker(n, byte)
    \/ /\ call = NoCall
       /\ \E byte \in Bytes : AsciiColorPicker(byte)
    \/ /\ call = NoCall
       /\ \E n \in ParserNames, h \in SampleFields, x \in BOOLEAN :
             Parse(n, h, x)

SpecPalette == Init /\ [][NextPalette]_vars

----------------------------------------------------------------------------
(* parse and format_line, driven call by call on one parser *)

NextFormat ==
    \/ \E b \in BOOLEAN, r \in (-MaxRot)..MaxRot :
          NewGradientPalette("p", b, r)
    \/ /\ call = NoCall /\ "p" \in DOMAIN instances
       /\ instances["p"].base = 16
       /\ \E h \in HexFields, x \in BOOLEAN : Parse("p", h, x)
    \/ /\ call = NoCall /\ "p" \in DOMAIN instances
       /\ instances["p"].base = 2
       /\ \E h \in BinFields, x \in BOOLEAN : Parse("p", h, x)
    \/ /\ call = NoCall /\ "p" \in DOMAIN instances
       /\ \E line \in Lines, x \in BOOLEAN : FormatLine("p", line, x)

SpecFormat == Init /\ [][NextFormat]_vars

----------------------------------------------------------------------------
(* Properties of the palettes, checked under SpecPalette *)

Congruent31(i, j) ==
    (instances[i].rotate_index - instances[j].rotate_index) % 31 = 0

\* C4: both palette variants can be constructed, and color_picker returns
\* a palette index (an integer terminal color or the null index) for every
\* byte value, so that colorizing a token never raises.
C4_PaletteTotality ==
    /\ call.op = "AsciiPalette" => call.ret.exc = ""
    /\ call.op \in {"color_picker", "AsciiPalette.color_picker"} =>
          /\ call.ret.exc = ""
          /\ call.ret.val \in 0..255
          /\ colorize(<<"0", "0">>, call.ret.val).exc = ""

\* C5: a Gradient Palette built with rotation r and one built with rotation
\* r + 31k return the same palette index for every byte value.
C5_RotationPeriodicity ==
    call.op = "color_picker" =>
        \A j \in DOMAIN instances :
            Congruent31(j, call.self) =>
                color_picker(instances[j], call.byte) = call.ret

C5_Witness ==
    /\ call.op = "color_picker"
    /\ call.byte # 0
    /\ \E j \in DOMAIN instances :
          /\ Congruent31(j, call.self)
          /\ instances[j].rotate_index # instances[call.self].rotate_index

\* C6: color_picker(0) is the null index 59 under every rotation, 59 is
\* not an entry of the 31-entry ramp, and no non-zero byte is given 59.
C6_ZeroByteNull ==
    call.op = "color_picker" =>
        /\ call.ret.exc = ""
        /\ call.byte = 0 => call.ret.val = 59
        /\ call.byte # 0 => call.ret.val # 59
        /\ Len(instances[call.self].palette) = 31
        /\ \A k \in 1..31 : instances[call.self].palette[k] # 59

C6_Witness ==
    /\ call.op = "color_picker"
    /\ call.byte = 0
    /\ instances[call.self].rotate_index # 0

\* floor(31 * b / 256)
Floor31(b) == CHOOSE i \in 0..31 : 256 * i <= 31 * b /\ 31 * b < 256 * (i + 1)

\* C9: for a byte value b in 1..255 the index is floor(31 * b / 256), it
\* lies in 0..30, color_picker(b) is the rotated table's entry at that
\* index, and the index does not decrease as b increases.
C9_GradientIndex ==
    call.op = "color_picker" /\ call.byte \in 1..255 =>
        LET index == gradient_index(Len(instances[call.self].palette),
                                    call.byte)
        IN /\ index = Floor31(call.byte)
           /\ index \in 0..30
           /\ call.ret.exc = ""
           /\ call.ret.val = instances[call.self].palette[index + 1]
           /\ \A b \in 1..call.byte :
                 gradient_index(Len(instances[call.self].palette), b) <= index

C9_Witness ==
    /\ call.op = "color_picker"
    /\ call.byte = 255
    /\ call.ret.val = instances[call.self].palette[31]

\* C10: the shared base table never changes, a parser's rotated table never
\* changes after its construction, and the index a parser returned for a
\* byte value is the one it returns at every later point of the run, also
\* after another parser has been built.
C10_PaletteImmutable ==
    /\ [](/\ base_palette = GradientPalette_base_palette
          /\ call.op = "color_picker" =>
                color_picker(instances[call.self], call.byte) = call.ret)
    /\ [][\A n \in DOMAIN instances :
              n \in DOMAIN instances' /\ instances'[n] = instances[n]]_vars

C10_Witness ==
    /\ call.op \in {"color_picker", "parse"}
    /\ call.self = "p"
    /\ "q" \in DOMAIN instances
    /\ instances["q"].palette # instances["p"].palette

----------------------------------------------------------------------------
(* Reading colored text *)

DecimalDigits == {"0", "1", "2", "3", "4", "5", "6", "7", "8", "9"}
ColorStart == <<ESC, "[", "3", "8", ";", "5", ";">>
ColorReset == <<ESC, "[", "0", "m">>

StartsWith(s, t) == Len(s) >= Len(t) /\ SubSeq(s, 1, Len(t)) = t

\* length of the color escape "\033[38;5;<digits>m" that s starts with, 0
\* when it starts with none
ColorEscapeLen(s) ==
    IF ~StartsWith(s, ColorStart) THEN 0
    ELSE LET ends == {n \in 8..Len(s) :
                         /\ s[n] = "m"
                         /\ n > 8
                         /\ \A k \in 8..(n - 1) : s[k] \in DecimalDigits}
         IN IF ends = {} THEN 0
            ELSE CHOOSE n \in ends : \A m \in ends : n <= m

\* s with every color escape and every reset removed
RECURSIVE StripColors(_)
StripColors(s) ==
    IF s = <<>> THEN <<>>
    ELSE IF StartsWith(s, ColorReset) THEN StripColors(Tail_from(s, 5))
    ELSE IF ColorEscapeLen(s) > 0
         THEN StripColors(Tail_from(s, ColorEscapeLen(s) + 1))
    ELSE <<Head(s)>> \o StripColors(Tail(s))

RECURSIVE Concat(_)
Concat(ss) == IF ss = <<>> THEN <<>> ELSE Head(ss) \o Concat(Tail(ss))

Count(s, c) == Cardinality({k \in 1..Len(s) : s[k] = c})

Contains(s, t) ==
    \E i \in 1..(Len(s) - Len(t) + 1) : SubSeq(s, i, i + Len(t) - 1) = t

WithoutLast(s) == SubSeq(s, 1, Len(s) - 1)

----------------------------------------------------------------------------
(* Properties of parse and format_line, checked under SpecFormat *)

\* a field of two-hex-digit tokens and single spaces
RECURSIVE IsTokenField(_)
IsTokenField(h) ==
    \/ h = <<>>
    \/ /\ Head(h) = " "
       /\ Len(h) = 1 \/ h[2] # " "
       /\ IsTokenField(Tail(h))
    \/ /\ Len(h) >= 2
       /\ h[1] \in HexDigits /\ h[2] \in HexDigits
       /\ IsTokenField(Tail_from(h, 3))

\* line is a record line whose ": " is at i and whose two-space separator
\* is at j
WellFormedAt(line, i, j) ==
    /\ i >= 2 /\ j >= i + 2 /\ j + 2 <= Len(line)
    /\ \A k \in 1..(i - 1) : line[k] \in HexDigits
    /\ SubSeq(line, i, i + 1) = <<":", " ">>
    /\ IsTokenField(SubSeq(line, i + 2, j - 1))
    /\ SubSeq(line, j, j + 1) = <<" ", " ">>
    /\ line[Len(line)] = NL
    /\ \A k \in (j + 2)..(Len(line) - 1) : line[k] # NL

WellFormed(line) ==
    \E i \in 1..Len(line), j \in 1..Len(line) : WellFormedAt(line, i, j)

\* C1: for a well-formed record line, format_line with the hex-mode
\* Gradient Palette colorizer and pixelate off returns the input's address
\* and text field in place, and the result without its color escapes and
\* resets is the input line without its line terminator.
C1_ColumnPreservation ==
    (/\ call.op = "format_line"
     /\ ~call.pixelate
     /\ instances[call.self].base = 16) =>
        \A i \in 1..Len(call.text), j \in 1..Len(call.text) :
            WellFormedAt(call.text, i, j) =>
                /\ call.ret.exc = ""
                /\ StripColors(call.ret.val) = WithoutLast(call.text)
                /\ SubSeq(call.ret.val, 1, i + 1) = SubSeq(call.text, 1, i + 1)
                /\ Tail_from(call.ret.val,
                             Len(call.ret.val) - (Len(call.text) - j) + 1)
                       = SubSeq(call.text, j, Len(call.text) - 1)

C1_Witness ==
    /\ call.op = "format_line"
    /\ ~call.pixelate
    /\ instances[call.self].base = 16
    /\ WellFormed(call.text)
    /\ call.ret.exc = ""
    /\ Count(call.ret.val, ESC) >= 4
    /\ Contains(call.text, <<"f", "f", " ", " ", ".", NL>>)

TokenWidth(self) == IF self.base = 2 THEN 8 ELSE 2

IsToken(self, f) ==
    /\ Len(f) = TokenWidth(self)
    /\ \A k \in 1..Len(f) : f[k] \in DigitsOf(self.base)

HoldsToken(self, f) ==
    \E i \in 1..(Len(f) - TokenWidth(self) + 1) :
        IsToken(self, SubSeq(f, i, i + TokenWidth(self) - 1))

\* C3: in hex mode and in binary mode the fragments of the split,
\* concatenated in order, are the input string, and they alternate
\* separator, token, separator, ..., where a separator may be empty.
C3_LosslessTokenization ==
    call.op = "parse" =>
        LET f == call.byte_data
            self == instances[call.self]
        IN /\ Concat(f) = call.text
           /\ Len(f) % 2 = 1
           /\ \A k \in 1..Len(f) :
                 IF k % 2 = 0 THEN IsToken(self, f[k])
                 ELSE ~HoldsToken(self, f[k])

C3_Witness ==
    /\ call.op = "parse"
    /\ instances[call.self].base = 2
    /\ Len(call.byte_data) = 3
    /\ call.byte_data[1] = <<>>
    /\ call.byte_data[3] # <<>>

PixelPiece(c) ==
    ColorStart \o FormatD(c) \o <<"m", pixel_char>> \o ColorReset

\* the pieces of pixelate mode from fragment k on: a separator as it is, a
\* token as a colored glyph
RECURSIVE PixelPieces(_, _, _)
PixelPieces(self, f, k) ==
    IF k > Len(f) THEN <<>>
    ELSE (IF k % 2 = 1 THEN f[k]
          ELSE PixelPiece(color_picker(self,
                                       DigitsValue(f[k], self.base)).val))
         \o PixelPieces(self, f, k + 1)

PixelateHolds ==
    /\ call.ret.exc = ""
    /\ call.ret.val = PixelPieces(instances[call.self], call.byte_data, 1)
    /\ Count(call.ret.val, pixel_char) = (Len(call.byte_data) - 1) \div 2

SeparatorsBlank ==
    \A k \in 1..Len(call.byte_data) :
        k % 2 = 1 => strip(call.byte_data[k]) = <<>>

\* C8 as stated: in pixelate mode, for every fragment sequence, each byte
\* token becomes one colored glyph, each separator is emitted unchanged, in
\* order, and the number of glyphs is the number of byte tokens.
C8_PixelateEveryField ==
    call.op = "parse" /\ call.pixelate => PixelateHolds

\* C8, amended: the same for every fragment sequence whose separator
\* fragments are all empty after trimming.
C8_PixelateBlankSeparators ==
    call.op = "parse" /\ call.pixelate /\ SeparatorsBlank => PixelateHolds

C8_Witness ==
    /\ call.op = "parse"
    /\ call.pixelate
    /\ SeparatorsBlank
    /\ Len(call.byte_data) = 3
    /\ call.byte_data[1] = <<" ">>
    /\ call.byte_data[3] = <<" ">>
    /\ Count(call.ret.val, pixel_char) = 1

----------------------------------------------------------------------------
(* Properties of main, checked under Spec *)

\* the newline-terminated lines of s, without their terminators
RECURSIVE LinesOf(_)
LinesOf(s) ==
    LET i == Find(s, <<NL>>)
    IN IF i = 0 THEN IF s = <<>> THEN <<>> ELSE <<s>>
       ELSE <<SubSeq(s, 1, i - 1)>> \o LinesOf(Tail_from(s, i + 1))

\* C2: for input lines that are well-formed record lines or the marker,
\* main writes one newline-terminated line per input line, in order, and
\* the marker "*\n" is written as "*\n" and nothing else.
C2_OneLinePerLine ==
    (/\ pc \in {"loop", "done"}
     /\ \A k \in 1..Len(consumed) :
           consumed[k] = Marker \/ WellFormed(consumed[k])) =>
        /\ Count(stdout, NL) = Len(consumed)
        /\ Len(LinesOf(stdout)) = Len(consumed)
        /\ \A k \in 1..Len(consumed) :
              IF consumed[k] = Marker THEN LinesOf(stdout)[k] = <<"*">>
              ELSE args.pixelate \/
                   StripColors(LinesOf(stdout)[k]) = WithoutLast(consumed[k])

\* line is not the marker and lacks ": ", or lacks the two spaces after
\* its first ": "
Malformed(line) ==
    /\ line # Marker
    /\ \/ ~Contains(line, <<":", " ">>)
       \/ \E i \in 1..(Len(line) - 1) :
             /\ SubSeq(line, i, i + 1) = <<":", " ">>
             /\ ~Contains(SubSeq(line, 1, i), <<":", " ">>)
             /\ ~Contains(Tail_from(line, i + 2), <<" ", " ">>)

\* C7: a line that is not the marker and lacks a separator makes
\* format_line raise; main does not catch it, so nothing is written for
\* that line and no later line is read or written.
C7_MalformedRejected ==
    /\ [](\A k \in 1..Len(consumed) :
             Malformed(consumed[k]) =>
                 /\ k = Len(consumed)
                 /\ pc = "crashed"
                 /\ call.text = consumed[k]
                 /\ call.ret.exc = "ValueError")
    /\ [][pc # "crashed" /\ (pc' = "crashed" => stdout' = stdout)]_vars

C7_Witness ==
    /\ pc = "crashed"
    /\ Len(consumed) = 3
    /\ Malformed(consumed[3])
    /\ Count(stdout, NL) >= 2

====
